---- MODULE Spec2Model ----
(***************************************************************************)
(* Free Fire ban-check proxy (src/app.py): the /check, /info/<uid>,        *)
(* /health and / handlers, the two upstream clients, the aggregator and    *)
(* the bounded memoization of account-info lookups.                        *)
(*                                                                         *)
(* Texts are sequences of characters.  A character is a one-character      *)
(* string, or "U+XXXX" for a code point outside ASCII.  JSON values are    *)
(* tagged records: [t |-> "str", s |-> text], [t |-> "int", n |-> number], *)
(* [t |-> "bool", b |-> boolean], [t |-> "null"] and                       *)
(* [t |-> "obj", f |-> function from key to JSON value].                   *)
(***************************************************************************)
EXTENDS Integers, Sequences, FiniteSets, TLC

VARIABLES cache, recency, last, lastCheck, prevCheck, nreq, nextFresh, cacheB, lastB,
          arg, out, thr

vars == <<cache, recency, last, lastCheck, prevCheck, nreq, nextFresh, cacheB, lastB,
          arg, out, thr>>

\* The state of the sequential service, and the function under study of
\* SpecPure with its result.
serviceVars == <<cache, recency, last, lastCheck, prevCheck, nreq, nextFresh, cacheB, lastB>>
pureVars == <<arg, out>>
\* All but the cache and the request threads of SpecConc.
restVars == <<recency, last, lastCheck, prevCheck, nreq, nextFresh, cacheB, lastB, arg, out>>

(***************************************************************************)
(* Bounds of the model and constants of the program.                       *)
(***************************************************************************)
\* Requests handled in one run of Spec.
MaxRequests == 2
\* Distinct identifiers requested in one run of SpecFill.
MaxFresh == 102
\* @lru_cache(maxsize=100)
maxsize == 100
\* signature[:50] + "..." if len(signature) > 50
SignatureLimit == 50

(***************************************************************************)
(* Texts.                                                                  *)
(***************************************************************************)
T_FetchFailed == <<"U+274C", " ", "F", "e", "t", "c", "h", " ", "f", "a", "i", "l", "e", "d">>
T_Timeout == <<"U+274C", " ", "T", "i", "m", "e", "o", "u", "t">>
T_Error == <<"U+274C", " ", "E", "r", "r", "o", "r">>
T_Unknown == <<"U+274C", " ", "U", "n", "k", "n", "o", "w", "n">>
T_NotAvailable == <<"U+274C", " ", "N", "o", "t", " ", "a", "v", "a", "i", "l", "a", "b", "l", "e">>
T_RankUnknown == <<"U", "n", "k", "n", "o", "w", "n">>
T_None == <<"N", "o", "n", "e">>
T_NoGuild == <<"N", "o", " ", "G", "u", "i", "l", "d">>
T_BRPrefix == <<"B", "R", ":", " ">>
T_Ellipsis == <<".", ".", ".">>
T_Banned == <<"U+1F6AB", " ", "B", "A", "N", "N", "E", "D">>
T_NotBanned == <<"U+2705", " ", "N", "O", "T", " ", "B", "A", "N", "N", "E", "D">>
T_Months == <<" ", "m", "o", "n", "t", "h", "(", "s", ")">>
T_NoBan == <<"N", "o", " ", "b", "a", "n">>
T_CheckedOk == <<"A", "c", "c", "o", "u", "n", "t", " ", "c", "h", "e", "c", "k", "e", "d", " ", "s", "u", "c", "c", "e", "s", "s", "f", "u", "l", "l", "y">>
T_Partial == <<"P", "a", "r", "t", "i", "a", "l", " ", "d", "a", "t", "a", " ", "f", "e", "t", "c", "h", "e", "d">>
T_Zero == <<"0">>
T_BD == <<"B", "D">>
T_IND == <<"I", "N", "D">>
T_PyNone == <<"N", "o", "n", "e">>
T_PyTrue == <<"T", "r", "u", "e">>
T_PyFalse == <<"F", "a", "l", "s", "e">>
T_EmptyDict == <<"{", "}">>
T_UidRequired == <<"P", "l", "a", "y", "e", "r", " ", "I", "D", " ", "(", "u", "i", "d", ")", " ", "i", "s", " ", "r", "e", "q", "u", "i", "r", "e", "d", "!">>
T_InvalidUid == <<"I", "n", "v", "a", "l", "i", "d", " ", "U", "I", "D", " ", "f", "o", "r", "m", "a", "t", ".", " ", "M", "u", "s", "t", " ", "b", "e", " ", "n", "u", "m", "e", "r", "i", "c", "!">>
T_InternalError == <<"I", "n", "t", "e", "r", "n", "a", "l", " ", "s", "e", "r", "v", "e", "r", " ", "e", "r", "r", "o", "r">>
T_FetchInfoFailed == <<"F", "a", "i", "l", "e", "d", " ", "t", "o", " ", "f", "e", "t", "c", "h", " ", "a", "c", "c", "o", "u", "n", "t", " ", "i", "n", "f", "o">>
T_PoweredBy == <<"@", "d", "e", "v", "_", "e", "c", "o">>
T_Channel == <<"h", "t", "t", "p", "s", ":", "/", "/", "d", "i", "s", "c", "o", "r", "d", ".", "g", "g", "/", "M", "b", "a", "5", "b", "N", "b", "d", "C", "P">>
T_HealthOk == <<"U+2705", " ", "O", "K">>
T_Service == <<"F", "r", "e", "e", " ", "F", "i", "r", "e", " ", "B", "a", "n", " ", "C", "h", "e", "c", "k", " ", "A", "P", "I">>
T_Version == <<"2", ".", "0">>
T_BanCheck == <<"B", "a", "n", " ", "C", "h", "e", "c", "k">>
T_AccountInfo == <<"A", "c", "c", "o", "u", "n", "t", " ", "I", "n", "f", "o">>
T_GuildInfo == <<"G", "u", "i", "l", "d", " ", "I", "n", "f", "o">>
T_RankInfo == <<"R", "a", "n", "k", " ", "I", "n", "f", "o">>
T_Login1 == <<"2", "0", "2", "5", "-", "0", "2", "-", "1", "0", " ", "2", "0", ":", "2", "7", ":", "5", "1", " ", "B", "D", "T">>
T_Create1 == <<"2", "0", "2", "0", "-", "0", "1", "-", "0", "1", " ", "0", "8", ":", "0", "0", ":", "0", "0", " ", "B", "D", "T">>

AsciiDigits == <<"0", "1", "2", "3", "4", "5", "6", "7", "8", "9">>

\* Characters for which Python's str.isdigit is true: the ASCII digits and
\* the other characters of Unicode numeric type Digit or Decimal, here
\* SUPERSCRIPT TWO (U+00B2) and ARABIC-INDIC DIGIT THREE (U+0663).
UnicodeDigitChars ==
    {AsciiDigits[i] : i \in 1..10} \cup {"U+00B2", "U+0663"}

\* The characters 0-9.
DecimalDigitChars == {AsciiDigits[i] : i \in 1..10}

(***************************************************************************)
(* JSON values and the Python operations the program applies to them.      *)
(***************************************************************************)
JStr(s) == [t |-> "str", s |-> s]
JInt(n) == [t |-> "int", n |-> n]
JBool(b) == [t |-> "bool", b |-> b]
JNull == [t |-> "null"]
JObj(f) == [t |-> "obj", f |-> f]
JList(items) == [t |-> "list", items |-> items]
EmptyObj == JObj(<<>>)

RECURSIVE NatToText(_)
NatToText(n) ==
    IF n < 10 THEN <<AsciiDigits[n + 1]>>
    ELSE NatToText(n \div 10) \o <<AsciiDigits[(n % 10) + 1]>>

\* str(n) for an integer.
IntToText(n) == IF n < 0 THEN <<"-">> \o NatToText(0 - n) ELSE NatToText(n)

\* str(v) and the "{v}" of an f-string.
PyStr(v) ==
    CASE v.t = "str" -> v.s
      [] v.t = "int" -> IntToText(v.n)
      [] v.t = "bool" -> (IF v.b THEN T_PyTrue ELSE T_PyFalse)
      [] v.t = "null" -> T_PyNone
      [] v.t = "obj" /\ DOMAIN v.f = {} -> T_EmptyDict

\* bool(v), and the test of "if v" / "if not v".
Truthy(v) ==
    CASE v.t = "str" -> Len(v.s) > 0
      [] v.t = "int" -> v.n # 0
      [] v.t = "bool" -> v.b
      [] v.t = "null" -> FALSE
      [] v.t = "obj" -> DOMAIN v.f # {}
      [] v.t = "list" -> Len(v.items) > 0

IsDict(v) == v.t = "obj"

\* d.get(key, default) on a dict d.
DictGet(d, key, default) ==
    IF key \in DOMAIN d.f THEN d.f[key] ELSE default

\* len(v) is defined for texts, lists and dicts only.
HasLen(v) == v.t \in {"str", "obj", "list"}
PyLen(v) ==
    IF v.t = "str" THEN Len(v.s)
    ELSE IF v.t = "list" THEN Len(v.items)
    ELSE Cardinality(DOMAIN v.f)

\* s.split(" "): every single space separates, so consecutive spaces give
\* empty tokens.
RECURSIVE SplitSpace(_)
SplitSpace(s) ==
    IF \A i \in 1..Len(s) : s[i] # " " THEN <<s>>
    ELSE LET k == CHOOSE i \in 1..Len(s) :
                      s[i] = " " /\ \A j \in 1..(i - 1) : s[j] # " "
         IN  <<SubSeq(s, 1, k - 1)>> \o SplitSpace(SubSeq(s, k + 1, Len(s)))

\* " ".join(parts)
RECURSIVE JoinSpace(_)
JoinSpace(parts) ==
    IF Len(parts) = 0 THEN <<>>
    ELSE IF Len(parts) = 1 THEN parts[1]
    ELSE parts[1] \o <<" ">> \o JoinSpace(Tail(parts))

\* xs[:n]
Take(xs, n) == SubSeq(xs, 1, IF Len(xs) < n THEN Len(xs) ELSE n)

\* player_id.isdigit()
isdigit(s) == Len(s) > 0 /\ \A i \in 1..Len(s) : s[i] \in UnicodeDigitChars

(***************************************************************************)
(* Upstream outcomes.  An HTTP call ends in a response, in a timeout       *)
(* (requests.Timeout) or in another exception (connection refused, ...).   *)
(* A response carries its status code and its body; the body is a JSON     *)
(* value, or [t |-> "invalid"] when it does not decode as JSON.            *)
(***************************************************************************)
UpResponse(code, body) == [kind |-> "response", status_code |-> code, json |-> body]
UpTimeout == [kind |-> "timeout"]
UpError == [kind |-> "error"]
NotJson == [t |-> "invalid"]

(***************************************************************************)
(* Upstream client: account info.                                          *)
(***************************************************************************)
\* FallbackInfo with the guild entry left out.
FallbackInfoNoGuild(nick, server) ==
    [nickname |-> JStr(nick),
     region |-> JStr(server),
     lastLoginAt |-> JStr(T_Zero),
     lastLoginReadable |-> JStr(T_Unknown),
     createAt |-> JStr(T_Zero),
     createAtReadable |-> JStr(T_Unknown),
     level |-> JStr(T_Zero),
     experience |-> JStr(T_Zero),
     rank |-> JStr(T_RankUnknown)]

\* The fallback record of get_player_info's three failure branches.
FallbackInfo(nick, server) ==
    [nickname |-> JStr(nick),
     region |-> JStr(server),
     lastLoginAt |-> JStr(T_Zero),
     lastLoginReadable |-> JStr(T_Unknown),
     createAt |-> JStr(T_Zero),
     createAtReadable |-> JStr(T_Unknown),
     level |-> JStr(T_Zero),
     experience |-> JStr(T_Zero),
     rank |-> JStr(T_RankUnknown),
     guild |-> JStr(T_None)]

\* parse_date_string that keeps the date and drops the time.
parse_date_string_first_token(date_str) ==
    IF ~Truthy(date_str) THEN JStr(T_Unknown)
    ELSE IF date_str.t # "str" THEN date_str
    ELSE JStr(SplitSpace(date_str.s)[1])

parse_date_string(date_str) ==
    IF ~Truthy(date_str) THEN JStr(T_Unknown)
    ELSE IF date_str.t # "str" THEN date_str   \* .split raises, caught: return date_str
    ELSE LET date_part == Take(SplitSpace(date_str.s), 2)
         IN  IF Len(date_part) >= 2 THEN JStr(JoinSpace(date_part))
             ELSE date_str

\* TruncateSignature that already cuts a signature of 50 characters.
TruncateSignatureAt50(signature) ==
    IF PyLen(signature) >= SignatureLimit
    THEN JStr(Take(signature.s, SignatureLimit) \o T_Ellipsis)
    ELSE signature

\* signature[:50] + "..." if len(signature) > 50 else signature
TruncateSignature(signature) ==
    IF PyLen(signature) > SignatureLimit
    THEN JStr(Take(signature.s, SignatureLimit) \o T_Ellipsis)
    ELSE signature

\* The sections of the decoded body, each with the {} default of data.get.
InfoSection(data, name) == DictGet(data, name, EmptyObj)

\* Whether the body of the try block raises on a 200 response: the body is
\* not JSON, the body or a section is not a dict, len(signature) is not
\* defined, or a signature that is no text is sliced and joined to "...".
InfoParseRaises(data) ==
    \/ data.t = "invalid"
    \/ ~IsDict(data)
    \/ ~IsDict(InfoSection(data, "AccountInfo"))
    \/ ~IsDict(InfoSection(data, "AccountProfileInfo"))
    \/ ~IsDict(InfoSection(data, "GuildInfo"))
    \/ ~IsDict(InfoSection(data, "SocialInfo"))
    \/ LET signature == DictGet(InfoSection(data, "SocialInfo"), "signature", JStr(<<>>))
       IN  \/ ~HasLen(signature)
           \/ signature.t # "str" /\ PyLen(signature) > SignatureLimit

\* ParsedInfo that always labels the record with the server value.
ParsedInfoServerRegion(data, server) ==
    LET account_info == InfoSection(data, "AccountInfo")
        account_profile == InfoSection(data, "AccountProfileInfo")
        guild_info == InfoSection(data, "GuildInfo")
        social_info == InfoSection(data, "SocialInfo")
        rank_point == DictGet(account_profile, "BrRankPoint", JStr(T_Zero))
        signature == DictGet(social_info, "signature", JStr(<<>>))
    IN  [nickname |-> DictGet(account_info, "AccountName", JStr(T_NotAvailable)),
         region |-> JStr(server),
         lastLoginAt |-> JStr(T_Zero),
         lastLoginReadable |->
             parse_date_string(DictGet(account_info, "AccountLastLogin", JStr(<<>>))),
         createAt |-> JStr(T_Zero),
         createAtReadable |->
             parse_date_string(DictGet(account_info, "AccountCreateTime", JStr(<<>>))),
         level |-> JStr(PyStr(DictGet(account_info, "AccountLevel", JStr(T_Zero)))),
         experience |-> JStr(PyStr(DictGet(account_info, "AccountEXP", JStr(T_Zero)))),
         rank |-> JStr(T_BRPrefix \o PyStr(rank_point)),
         guild |-> DictGet(guild_info, "GuildName", JStr(T_NoGuild)),
         signature |-> TruncateSignature(signature)]

\* The record built from a 200 response whose body parses.
ParsedInfo(data, server) ==
    LET account_info == InfoSection(data, "AccountInfo")
        account_profile == InfoSection(data, "AccountProfileInfo")
        guild_info == InfoSection(data, "GuildInfo")
        social_info == InfoSection(data, "SocialInfo")
        rank_point == DictGet(account_profile, "BrRankPoint", JStr(T_Zero))
        signature == DictGet(social_info, "signature", JStr(<<>>))
    IN  [nickname |-> DictGet(account_info, "AccountName", JStr(T_NotAvailable)),
         region |-> DictGet(account_info, "AccountRegion", JStr(server)),
         lastLoginAt |-> JStr(T_Zero),
         lastLoginReadable |->
             parse_date_string(DictGet(account_info, "AccountLastLogin", JStr(<<>>))),
         createAt |-> JStr(T_Zero),
         createAtReadable |->
             parse_date_string(DictGet(account_info, "AccountCreateTime", JStr(<<>>))),
         level |-> JStr(PyStr(DictGet(account_info, "AccountLevel", JStr(T_Zero)))),
         experience |-> JStr(PyStr(DictGet(account_info, "AccountEXP", JStr(T_Zero)))),
         rank |-> JStr(T_BRPrefix \o PyStr(rank_point)),
         guild |-> DictGet(guild_info, "GuildName", JStr(T_NoGuild)),
         signature |-> TruncateSignature(signature)]

\* get_player_info with the two except clauses in the other order: a
\* timeout is caught as a general exception.
get_player_info_timeout_as_error(player_id, server, res) ==
    IF res.kind \in {"timeout", "error"} THEN FallbackInfo(T_Error, server)
    ELSE IF res.status_code # 200 THEN FallbackInfo(T_FetchFailed, server)
    ELSE IF InfoParseRaises(res.json) THEN FallbackInfo(T_Error, server)
    ELSE ParsedInfo(res.json, server)

\* get_player_info(player_id, server) when the GET of the account-info
\* service ends in the outcome res.
get_player_info(player_id, server, res) ==
    IF res.kind = "timeout" THEN FallbackInfo(T_Timeout, server)
    ELSE IF res.kind = "error" THEN FallbackInfo(T_Error, server)
    ELSE IF res.status_code # 200 THEN FallbackInfo(T_FetchFailed, server)
    ELSE IF InfoParseRaises(res.json) THEN FallbackInfo(T_Error, server)
    ELSE ParsedInfo(res.json, server)

(***************************************************************************)
(* Upstream client: ban status.                                            *)
(***************************************************************************)
BanFallback == [is_banned |-> JInt(0), period |-> JInt(0), success |-> FALSE]

\* check_ban_status that answers from a remembered record.
check_ban_status_remembered(player_id, response) == BanFallback

\* check_ban_status without the test of the status code.
check_ban_status_any_status(player_id, response) ==
    IF response.kind # "response" THEN BanFallback
    ELSE IF response.json.t = "invalid" \/ ~IsDict(response.json) THEN BanFallback
    ELSE LET data == DictGet(response.json, "data", EmptyObj)
         IN  IF ~IsDict(data) THEN BanFallback
             ELSE [is_banned |-> DictGet(data, "is_banned", JInt(0)),
                   period |-> DictGet(data, "period", JInt(0)),
                   success |-> TRUE]

\* check_ban_status(player_id) when the GET of the ban service ends in the
\* outcome response.
check_ban_status(player_id, response) ==
    IF response.kind # "response" THEN BanFallback
    ELSE IF response.status_code # 200 THEN BanFallback
    ELSE IF response.json.t = "invalid" \/ ~IsDict(response.json) THEN BanFallback
    ELSE LET data == DictGet(response.json, "data", EmptyObj)
         IN  IF ~IsDict(data) THEN BanFallback
             ELSE [is_banned |-> DictGet(data, "is_banned", JInt(0)),
                   period |-> DictGet(data, "period", JInt(0)),
                   success |-> TRUE]

(***************************************************************************)
(* The memoization of get_player_info: functools.lru_cache(maxsize=100)    *)
(* keyed by the call's arguments (player_id, server).  The cache is the    *)
(* sequence of its entries from the least to the most recently used.       *)
(***************************************************************************)
CacheKeys(c) == {c[i].key : i \in 1..Len(c)}

CacheIndex(c, key) == CHOOSE i \in 1..Len(c) : c[i].key = key

CacheValue(c, key) == c[CacheIndex(c, key)].value

Without(c, i) == SubSeq(c, 1, i - 1) \o SubSeq(c, i + 1, Len(c))

\* lru_hit that leaves the order as it is (first in, first out).
lru_hit_no_promote(c, key) == c

\* A hit moves the entry to the most recently used end.
lru_hit(c, key) ==
    LET i == CacheIndex(c, key) IN Append(Without(c, i), c[i])

\* lru_store that never drops an entry.
lru_store_unbounded(c, key, value) ==
    IF key \in CacheKeys(c) THEN c
    ELSE Append(c, [key |-> key, value |-> value])

\* lru_store that keeps successful records only.
lru_store_skip_fallback(c, key, value) ==
    IF key \in CacheKeys(c) \/ "signature" \notin DOMAIN value THEN c
    ELSE IF Len(c) >= maxsize THEN Append(Tail(c), [key |-> key, value |-> value])
    ELSE Append(c, [key |-> key, value |-> value])

\* lru_store that does not look for the key again after the call.
lru_store_no_recheck(c, key, value) ==
    IF Len(c) >= maxsize THEN Append(Tail(c), [key |-> key, value |-> value])
    ELSE Append(c, [key |-> key, value |-> value])

\* After the wrapped call returned on a miss: a key that was stored while
\* the call ran is left as it is; a full cache drops its least recently
\* used entry; the result is stored as the most recently used.
lru_store(c, key, value) ==
    IF key \in CacheKeys(c) THEN c
    ELSE IF Len(c) >= maxsize THEN Append(Tail(c), [key |-> key, value |-> value])
    ELSE Append(c, [key |-> key, value |-> value])

\* get_player_info_cached without the memoization.
get_player_info_uncached(c, player_id, server, res) ==
    [result |-> get_player_info(player_id, server, res), cache |-> c,
     hit |-> FALSE, calls |-> 1]

\* get_player_info_cached(player_id, server) run to completion on cache c,
\* where res is the outcome the account-info service would give now.
get_player_info_cached(c, player_id, server, res) ==
    LET key == <<player_id, server>>
    IN  IF key \in CacheKeys(c)
        THEN [result |-> CacheValue(c, key), cache |-> lru_hit(c, key),
              hit |-> TRUE, calls |-> 0]
        ELSE LET value == get_player_info(player_id, server, res)
             IN  [result |-> value, cache |-> lru_store(c, key, value),
                  hit |-> FALSE, calls |-> 1]

(***************************************************************************)
(* Aggregator.                                                             *)
(***************************************************************************)
\* The keys check_banned_fast reads with player_info[...] and ban_info[...];
\* a missing one raises KeyError.
InfoKeysRead ==
    {"nickname", "region", "level", "experience", "rank", "guild",
     "lastLoginReadable", "createAtReadable"}
BanKeysRead == {"is_banned", "period", "success"}

AggregateRaises(player_info, ban_info) ==
    \/ \E k \in InfoKeysRead : k \notin DOMAIN player_info
    \/ \E k \in BanKeysRead : k \notin DOMAIN ban_info

\* StatusText that also asks for a parsed account record.
StatusTextBoth(player_info, ban_info) ==
    IF ban_info.success /\ "signature" \in DOMAIN player_info
    THEN T_CheckedOk ELSE T_Partial

\* "Account checked successfully" if ban_info["success"] else "Partial data fetched"
StatusText(player_info, ban_info) ==
    IF ban_info.success THEN T_CheckedOk ELSE T_Partial

\* AccountText that compares the flag with 1.
AccountTextFlagIsOne(is_banned) ==
    IF is_banned = JInt(1) THEN T_Banned ELSE T_NotBanned

\* The ban fields of the result.
AccountText(is_banned) == IF Truthy(is_banned) THEN T_Banned ELSE T_NotBanned
DurationText(ban_info) ==
    IF Truthy(ban_info.is_banned) THEN PyStr(ban_info.period) \o T_Months ELSE T_NoBan

\* player_info.get("signature") is truthy
HasSignature(player_info) ==
    "signature" \in DOMAIN player_info /\ Truthy(player_info.signature)

\* The result of check_banned_fast from the two joined task results.
check_banned_fast(player_id, server, player_info, ban_info) ==
    LET is_banned == ban_info.is_banned
        result ==
            [Status |-> JStr(StatusText(player_info, ban_info)),
             UID |-> JStr(player_id),
             Nickname |-> player_info.nickname,
             Region |-> player_info.region,
             Level |-> player_info.level,
             Experience |-> player_info.experience,
             Rank |-> player_info.rank,
             Guild |-> player_info.guild,
             LastLogin |-> player_info.lastLoginReadable,
             CreatedAt |-> player_info.createAtReadable,
             Account |-> JStr(AccountText(is_banned)),
             Duration |-> JStr(DurationText(ban_info)),
             Banned |-> JBool(Truthy(is_banned)),
             PoweredBy |-> JStr(T_PoweredBy),
             Channel |-> JStr(T_Channel)]
    IN  IF HasSignature(player_info)
        THEN JObj(result @@ ("BIO" :> player_info.signature))
        ELSE JObj(result)

(***************************************************************************)
(* Request handlers.  A response is its status and its body.               *)
(***************************************************************************)
Response(body, status) == [status |-> status, body |-> body]

ErrorBody(message, code) ==
    JObj([error |-> JStr(message), status_code |-> JInt(code)])
ExceptionBody ==
    JObj([exception |-> JStr(T_InternalError), status_code |-> JInt(500)])

\* request.args.get(name, default)
ArgGet(args, name, default) == IF name \in DOMAIN args THEN args[name] ELSE default

\* What one handled request did: the response, the upstream calls made and
\* their outcomes, and whether the account record came from the cache.
NoUp == [kind |-> "none"]
Handled(route, uid, server, resp, infoCalls, banCalls, infoUp, banUp, hit) ==
    [route |-> route, uid |-> uid, server |-> server,
     status |-> resp.status, body |-> resp.body,
     infoCalls |-> infoCalls, banCalls |-> banCalls,
     infoUp |-> infoUp, banUp |-> banUp, hit |-> hit]
NoRequest ==
    Handled("none", <<>>, <<>>, Response(JNull, 0), 0, 0, NoUp, NoUp, FALSE)

\* Whether /check passes its two validations and calls check_banned_fast.
check_accepts(args) ==
    LET player_id == ArgGet(args, "uid", <<>>)
    IN  Len(player_id) > 0 /\ isdigit(player_id)

\* check() on the cache c: the cache afterwards and what the request did,
\* when the account-info service would answer infoUp and the ban service
\* banUp at the time of the request.
check_result(c, args, infoUp, banUp) ==
    LET player_id == ArgGet(args, "uid", <<>>)
        server == ArgGet(args, "server", T_BD)
    IN  IF Len(player_id) = 0 THEN
            [cache |-> c,
             done |-> Handled("check", player_id, server,
                              Response(ErrorBody(T_UidRequired, 400), 400),
                              0, 0, NoUp, NoUp, FALSE)]
        ELSE IF ~isdigit(player_id) THEN
            [cache |-> c,
             done |-> Handled("check", player_id, server,
                              Response(ErrorBody(T_InvalidUid, 400), 400),
                              0, 0, NoUp, NoUp, FALSE)]
        ELSE
            LET info == get_player_info_cached(c, player_id, server, infoUp)
                ban_info == check_ban_status(player_id, banUp)
                resp == IF AggregateRaises(info.result, ban_info)
                        THEN Response(ExceptionBody, 500)
                        ELSE Response(check_banned_fast(player_id, server,
                                                        info.result, ban_info), 200)
            IN  [cache |-> info.cache,
                 done |-> Handled("check", player_id, server, resp,
                                  info.calls, 1, infoUp, banUp, info.hit)]

\* Keys ordered by their last access through the cached function, oldest
\* first (history of the run, kept apart from the cache's own order).
Touch(order, key) ==
    LET rest == SelectSeq(order, LAMBDA k : k # key) IN Append(rest, key)

\* The outcomes a call can have: those of ups if the call is made.
CallOutcomes(made, ups) == IF made THEN ups ELSE {NoUp}

\* GET /check with the query arguments args.  The outcome of each upstream
\* call is drawn where the call is made: the ban call in every request that
\* passes validation, the account-info call only on a cache miss.
check(args, infoUps, banUps) ==
    LET key == <<ArgGet(args, "uid", <<>>), ArgGet(args, "server", T_BD)>>
        accepted == check_accepts(args)
    IN  \E banUp \in CallOutcomes(accepted, banUps) :
        \E infoUp \in CallOutcomes(accepted /\ key \notin CacheKeys(cache), infoUps) :
            LET r == check_result(cache, args, infoUp, banUp)
            IN  /\ cache' = r.cache
                /\ last' = r.done
                /\ IF accepted
                   THEN /\ recency' = Touch(recency, key)
                        /\ lastCheck' = r.done
                        /\ prevCheck' = lastCheck
                   ELSE UNCHANGED <<recency, lastCheck, prevCheck>>

HealthBody(now) ==
    JObj([status |-> JStr(T_HealthOk),
          service |-> JStr(T_Service),
          version |-> JStr(T_Version),
          uptime |-> JStr(now),
          features |-> [t |-> "list",
                        items |-> <<JStr(T_BanCheck), JStr(T_AccountInfo),
                                    JStr(T_GuildInfo), JStr(T_RankInfo)>>]])

\* health_check that first probes the account-info service and reports its
\* failure.
health_check_probing(now) ==
    /\ last' = Handled("health", <<>>, <<>>,
                       Response(HealthBody(now), IF cache = <<>> THEN 200 ELSE 503),
                       1, 0, UpTimeout, NoUp, FALSE)
    /\ UNCHANGED <<cache, recency, lastCheck, prevCheck>>

\* GET /health at the time now.
health_check(now) ==
    /\ last' = Handled("health", <<>>, <<>>, Response(HealthBody(now), 200),
                       0, 0, NoUp, NoUp, FALSE)
    /\ UNCHANGED <<cache, recency, lastCheck, prevCheck>>

\* full_info_response that answers 500 for every upstream failure.
full_info_response_500(response) ==
    IF response.kind # "response" THEN Response(ExceptionBody, 500)
    ELSE IF response.status_code = 200 THEN
        IF response.json.t = "invalid" THEN Response(ExceptionBody, 500)
        ELSE Response(response.json, 200)
    ELSE Response(ErrorBody(T_FetchInfoFailed, 500), 500)

\* The response of get_full_info when the account-info service's GET ends
\* in the outcome response.
full_info_response(response) ==
    IF response.kind # "response" THEN Response(ExceptionBody, 500)
    ELSE IF response.status_code = 200 THEN
        IF response.json.t = "invalid" THEN Response(ExceptionBody, 500)
        ELSE Response(response.json, 200)
    ELSE Response(ErrorBody(T_FetchInfoFailed, response.status_code),
                  response.status_code)

\* get_full_info that fetches through the memoized lookup.
get_full_info_through_cache(uid, infoUps) ==
    \E response \in infoUps :
        LET info == get_player_info_cached(cache, uid, T_BD, response)
        IN  /\ last' = Handled("info", uid, <<>>, full_info_response(response),
                               info.calls, 0, response, NoUp, info.hit)
            /\ cache' = info.cache
            /\ UNCHANGED <<recency, lastCheck, prevCheck>>

\* GET /info/<uid>
get_full_info(uid, infoUps) ==
    \E response \in infoUps :
        /\ last' = Handled("info", uid, <<>>, full_info_response(response),
                           1, 0, response, NoUp, FALSE)
        /\ UNCHANGED <<cache, recency, lastCheck, prevCheck>>

\* GET /
index ==
    /\ last' = Handled("index", <<>>, <<>>,
                       Response([t |-> "html"], 200), 0, 0, NoUp, NoUp, FALSE)
    /\ UNCHANGED <<cache, recency, lastCheck, prevCheck>>

(***************************************************************************)
(* The requests and upstream outcomes of a run.                            *)
(***************************************************************************)
U7 == <<"7">>
USup2 == <<"U+00B2">>

\* uid values of /check: empty, decimal, signed, with a decimal point, with
\* whitespace, with a letter, and SUPERSCRIPT TWO.
UidInputs ==
    {<<>>, U7, <<"-", "7">>, <<"7", ".", "5">>, <<" ", "7">>, <<"7", "a">>, USup2}

CheckArgs ==
    {<<>>, [server |-> T_IND]}
        \cup {[uid |-> u] : u \in UidInputs}
        \cup {[uid |-> U7, server |-> T_IND]}

\* Bodies of the account-info service.
InfoFull ==
    JObj([AccountInfo |->
              JObj([AccountName |-> JStr(<<"A", "c", "e">>),
                    AccountRegion |-> JStr(<<"S", "G">>),
                    AccountLevel |-> JInt(55),
                    AccountEXP |-> JInt(1200),
                    AccountLastLogin |-> JStr(T_Login1),
                    AccountCreateTime |-> JStr(T_Create1)]),
          AccountProfileInfo |-> JObj([BrRankPoint |-> JInt(3000)]),
          GuildInfo |-> JObj([GuildName |-> JStr(<<"G", "1">>)]),
          SocialInfo |-> JObj([signature |-> JStr(<<"h", "i">>)])])

\* The account renamed, and no region, dates, rank, guild or signature given.
InfoRenamed ==
    JObj([AccountInfo |-> JObj([AccountName |-> JStr(<<"B", "o", "b">>)])])

InfoUps ==
    {UpResponse(200, InfoFull), UpResponse(200, InfoRenamed),
     UpResponse(200, NotJson), UpResponse(404, NotJson), UpTimeout, UpError}

\* Bodies of the ban service.
BanBody(flag, months) ==
    JObj([data |-> JObj([is_banned |-> JInt(flag), period |-> JInt(months)])])

BanUps ==
    {UpResponse(200, BanBody(1, 3)), UpResponse(200, BanBody(0, 0)),
     UpResponse(403, BanBody(1, 3)), UpTimeout, UpError}

InfoUids == {U7, <<"a", "b", "c">>}

Clock == {<<"t", "1">>, <<"t", "2">>}

\* The request threads of the server (app.run(threaded=True) handles each
\* request on a thread of its own).
Workers == {"w1", "w2"}

\* A thread that has no request yet: where its handler stands, the request,
\* the two tasks submitted to its executor (the account-info task with the
\* outcome of the upstream call it made, if any), and the responses sent.
\* The last two fields record history: the task that completed first, and
\* whether the cache lookup ran while another request's fetch was in flight.
IdleThread ==
    [pc |-> "idle", args |-> <<>>,
     info |-> [state |-> "none", result |-> <<>>, hit |-> FALSE, up |-> NoUp],
     ban |-> [state |-> "none", result |-> <<>>],
     responses |-> <<>>, firstDone |-> "none", duringFetch |-> FALSE]

NoThreads == [w \in Workers |-> IdleThread]

\* No function under study, and no result yet.
NoArg == [fn |-> "none"]
NotApplied == [applied |-> FALSE]

(***************************************************************************)
(* Spec: any MaxRequests requests, one handled after the other.            *)
(***************************************************************************)
Init ==
    /\ cache = <<>>
    /\ recency = <<>>
    /\ last = NoRequest
    /\ lastCheck = NoRequest
    /\ prevCheck = NoRequest
    /\ nreq = 0
    /\ nextFresh = 0
    /\ cacheB = <<>>
    /\ lastB = NoRequest
    /\ arg = NoArg
    /\ out = NotApplied
    /\ thr = NoThreads

Next ==
    /\ nreq < MaxRequests
    /\ nreq' = nreq + 1
    /\ UNCHANGED <<nextFresh, cacheB, lastB, pureVars, thr>>
    /\ \/ \E args \in CheckArgs : check(args, InfoUps, BanUps)
       \/ \E uid \in InfoUids : get_full_info(uid, InfoUps)
       \/ \E now \in Clock : health_check(now)
       \/ index

Spec == Init /\ [][Next]_vars

(***************************************************************************)
(* SpecFill: the cache filled to its capacity and beyond.  Identifiers are *)
(* requested for the first time in increasing order (1, 2, 3, ...), and    *)
(* the first ones may be requested again at any time.  Both upstream       *)
(* services answer 200.                                                    *)
(***************************************************************************)
\* The identifiers that are requested again.
Repeated == {1}

FillInfoUps(n) ==
    {UpResponse(200, JObj([AccountInfo |->
                               JObj([AccountName |-> JStr(<<"P">> \o NatToText(n))])]))}

FillBanUps == {UpResponse(200, BanBody(0, 0))}

FillFresh ==
    /\ nextFresh < MaxFresh
    /\ nextFresh' = nextFresh + 1
    /\ check([uid |-> NatToText(nextFresh + 1)], FillInfoUps(nextFresh + 1), FillBanUps)

FillAgain ==
    /\ \E n \in Repeated :
          /\ n <= nextFresh
          /\ check([uid |-> NatToText(n)], FillInfoUps(n), FillBanUps)
    /\ UNCHANGED nextFresh

FillOther ==
    /\ \/ get_full_info(U7, {UpResponse(200, InfoFull)})
       \/ health_check(<<"t", "1">>)
    /\ UNCHANGED nextFresh

NextFill ==
    (FillFresh \/ FillAgain \/ FillOther) /\ UNCHANGED <<nreq, cacheB, lastB, pureVars, thr>>

SpecFill == Init /\ [][NextFill]_vars

(***************************************************************************)
(* SpecPair: two runs of the service side by side.  Both receive the same  *)
(* /check requests except for the server values, and both upstream         *)
(* services behave the same in the two runs: at each request, infoUp and   *)
(* banUp are what the services answer then, to whichever run calls them.   *)
(* Run A is (cache, last), run B is (cacheB, lastB).                       *)
(***************************************************************************)
Servers == {T_BD, T_IND}

PairInfoUps == {UpResponse(200, InfoFull), UpResponse(200, InfoRenamed), UpTimeout}

PairBanUps == {UpResponse(200, BanBody(1, 3)), UpTimeout}

PairCheck(uid, serverA, serverB) ==
    \E infoUp \in PairInfoUps, banUp \in PairBanUps :
        LET a == check_result(cache, [uid |-> uid, server |-> serverA], infoUp, banUp)
            b == check_result(cacheB, [uid |-> uid, server |-> serverB], infoUp, banUp)
        IN  /\ cache' = a.cache
            /\ last' = a.done
            /\ cacheB' = b.cache
            /\ lastB' = b.done

NextPair ==
    /\ nreq < MaxRequests
    /\ nreq' = nreq + 1
    /\ \E serverA \in Servers, serverB \in Servers : PairCheck(U7, serverA, serverB)
    /\ UNCHANGED <<recency, lastCheck, prevCheck, nextFresh, pureVars, thr>>

SpecPair == Init /\ [][NextPair]_vars

(***************************************************************************)
(* SpecPure: one function of the program applied to one input.  The input  *)
(* is drawn in the initial state and the function's action applies it.     *)
(***************************************************************************)
\* Longest drawn date text.
MaxDateLen == 4

\* All texts of at most n characters of chars.
TextsUpTo(chars, n) == UNION {[1..k -> chars] : k \in 0..n}

\* Date values of the account-info service: short texts with spaces at any
\* place, the dated texts, and values that are no text.
DateValues ==
    {JStr(s) : s \in TextsUpTo({"a", "b", " "}, MaxDateLen) \cup {T_Login1, T_Create1}}
        \cup {JNull, JInt(0), JInt(20250210)}

\* A signature of n characters, no two neighbours alike.
Sig(n) == [i \in 1..n |-> AsciiDigits[(i % 10) + 1]]

SignatureLengths == {0, 1, 40, 49, 50, 51, 60}

\* A body that holds the one section name with the value v.
WithSection(name, v) == JObj(name :> v)

\* Values that are no JSON object.
NonObjects == {JNull, JStr(<<"x">>), JInt(5), JBool(TRUE), JList(<<>>)}

\* Bodies of a 200 answer of the account-info service: undecodable, no
\* object, an object with a section that is no object, with a signature
\* that is no text, with signatures and dates of many shapes, and complete.
PureInfoBodies ==
    {NotJson, EmptyObj, InfoFull, InfoRenamed}
        \cup NonObjects
        \cup {WithSection(n, v) :
                 n \in {"AccountInfo", "AccountProfileInfo", "GuildInfo", "SocialInfo"},
                 v \in NonObjects}
        \cup {WithSection("SocialInfo", JObj("signature" :> v)) :
                 v \in {JNull, JInt(7), JBool(FALSE), EmptyObj, JList(<<JInt(1)>>)}}
        \cup {WithSection("SocialInfo", JObj("signature" :> JStr(Sig(n)))) :
                 n \in SignatureLengths}
        \cup {WithSection("AccountInfo", JObj("AccountLastLogin" :> d)) :
                 d \in {JStr(T_Login1), JStr(<<"a", " ", " ", "b">>), JInt(0)}}

PureInfoUps ==
    {UpResponse(200, b) : b \in PureInfoBodies}
        \cup {UpResponse(code, b) : code \in {204, 301, 404, 500}, b \in {InfoFull, NotJson}}
        \cup {UpTimeout, UpError}

\* The account-info outcomes of the aggregator's inputs.
PureCheckInfoUps ==
    {UpTimeout, UpError, UpResponse(404, InfoFull), UpResponse(200, NotJson),
     UpResponse(200, InfoFull), UpResponse(200, InfoRenamed)}
        \cup {UpResponse(200, WithSection("SocialInfo", JObj("signature" :> JStr(Sig(n))))) :
                 n \in {0, 1, 50, 51, 60}}

\* Values of the ban service's is_banned and period.
BanFlags ==
    {JInt(0), JInt(1), JInt(2), JInt(0 - 1), JBool(TRUE), JBool(FALSE), JNull,
     JStr(<<>>), JStr(<<"0">>), JStr(<<"y", "e", "s">>), EmptyObj, JList(<<>>)}

BanPeriods == {JInt(0), JInt(3), JInt(12), JNull, JStr(<<"7">>)}

PureBanUps ==
    {UpResponse(200, JObj([data |-> JObj([is_banned |-> f, period |-> p])])) :
         f \in BanFlags, p \in BanPeriods}
        \cup {UpResponse(200, JObj([data |-> JObj([is_banned |-> JInt(1)])])),
              UpResponse(200, JObj([data |-> JObj([period |-> JInt(3)])])),
              UpResponse(200, EmptyObj), UpResponse(200, JObj([data |-> JNull])),
              UpResponse(200, NotJson), UpResponse(403, BanBody(1, 3)),
              UpTimeout, UpError}

PureArgs ==
    {[fn |-> "parse_date_string", date_str |-> d] : d \in DateValues}
        \cup {[fn |-> "get_player_info", player_id |-> U7, server |-> s, res |-> r] :
                 s \in Servers, r \in PureInfoUps}
        \cup {[fn |-> "check_banned_fast", player_id |-> U7, server |-> T_IND,
               infoUp |-> i, banUp |-> b] :
                 i \in PureCheckInfoUps, b \in PureBanUps}

InitPure ==
    /\ cache = <<>>
    /\ recency = <<>>
    /\ last = NoRequest
    /\ lastCheck = NoRequest
    /\ prevCheck = NoRequest
    /\ nreq = 0
    /\ nextFresh = 0
    /\ cacheB = <<>>
    /\ lastB = NoRequest
    /\ arg \in PureArgs
    /\ out = NotApplied
    /\ thr = NoThreads

Apply_parse_date_string ==
    /\ arg.fn = "parse_date_string"
    /\ ~out.applied
    /\ out' = [applied |-> TRUE, value |-> parse_date_string(arg.date_str)]

Apply_get_player_info ==
    /\ arg.fn = "get_player_info"
    /\ ~out.applied
    /\ out' = [applied |-> TRUE,
               value |-> get_player_info(arg.player_id, arg.server, arg.res)]

\* The aggregator on the results of its two tasks.
Apply_check_banned_fast ==
    /\ arg.fn = "check_banned_fast"
    /\ ~out.applied
    /\ LET player_info == get_player_info(arg.player_id, arg.server, arg.infoUp)
           ban_info == check_ban_status(arg.player_id, arg.banUp)
       IN  out' = [applied |-> TRUE, player_info |-> player_info, ban_info |-> ban_info,
                   value |-> check_banned_fast(arg.player_id, arg.server,
                                               player_info, ban_info)]

NextPure ==
    /\ \/ Apply_parse_date_string
       \/ Apply_get_player_info
       \/ Apply_check_banned_fast
    /\ UNCHANGED <<arg, serviceVars, thr>>

SpecPure == InitPure /\ [][NextPure]_vars

(***************************************************************************)
(* SpecConc: /check requests handled concurrently, each on its own thread  *)
(* with its own two-worker executor.  A request's account-info task does   *)
(* the cache lookup (one bookkeeping step), on a miss the upstream call    *)
(* outside the cache's lock, and then the store (one bookkeeping step).    *)
(***************************************************************************)
\* The cache of a server that has answered /check for the uids 1..n.
Prefilled(n) ==
    [i \in 1..n |->
        [key |-> <<NatToText(i), T_BD>>,
         value |-> get_player_info(NatToText(i), T_BD,
                                   CHOOSE up \in FillInfoUps(i) : TRUE)]]

\* Requests: no uid, the first uid of Prefilled, and two uids after its last.
ConcArgs ==
    {<<>>, [uid |-> NatToText(1)], [uid |-> NatToText(maxsize)],
     [uid |-> NatToText(maxsize + 1)]}

ConcInfoUps == FillInfoUps(0) \cup {UpTimeout}

ConcBanUps == {UpResponse(200, BanBody(1, 3)), UpTimeout}

\* Future.result() that returns what a started task has so far.
future_done_or_running(task) == task.state # "none"

\* Future.result() returns once the task has completed.
future_done(task) == task.state = "done"

\* The lock held from a miss until the store, so that other requests wait.
cache_lock_held_across_call(w) ==
    \A v \in Workers \ {w} : thr[v].info.state # "fetching"

\* The lock held from a miss until the store and taken again, without
\* re-entry, by the store.
cache_lock_not_reentrant(w) ==
    \A v \in Workers : thr[v].info.state # "fetching"

\* functools.lru_cache takes its lock inside each bookkeeping step and
\* releases it before the step ends, so between steps the lock is free.
cache_lock_free(w) == TRUE

ThreadKey(t) == <<ArgGet(t.args, "uid", <<>>), ArgGet(t.args, "server", T_BD)>>

\* The task named first is recorded when it is the first to complete.
Completed(t, name) == IF t.firstDone = "none" THEN name ELSE t.firstDone

\* check(): the request arrives and is validated; a rejected one is answered
\* at once.
Receive(w) ==
    /\ thr[w].pc = "idle"
    /\ \E args \in ConcArgs :
          IF check_accepts(args)
          THEN thr' = [thr EXCEPT ![w].pc = "submit_info", ![w].args = args]
          ELSE LET h == check_result(cache, args, NoUp, NoUp).done
               IN  thr' = [thr EXCEPT ![w].pc = "done", ![w].args = args,
                                      ![w].responses = <<Response(h.body, h.status)>>]
    /\ UNCHANGED <<cache, restVars>>

\* executor.submit(get_player_info_cached, player_id, server)
SubmitInfo(w) ==
    /\ thr[w].pc = "submit_info"
    /\ thr' = [thr EXCEPT ![w].pc = "submit_ban", ![w].info.state = "lookup"]
    /\ UNCHANGED <<cache, restVars>>

\* executor.submit(check_ban_status, player_id)
SubmitBan(w) ==
    /\ thr[w].pc = "submit_ban"
    /\ thr' = [thr EXCEPT ![w].pc = "await_info", ![w].ban.state = "calling"]
    /\ UNCHANGED <<cache, restVars>>

\* player_info = player_info_future.result()
AwaitInfo(w) ==
    /\ thr[w].pc = "await_info"
    /\ future_done(thr[w].info)
    /\ thr' = [thr EXCEPT ![w].pc = "await_ban"]
    /\ UNCHANGED <<cache, restVars>>

\* ban_info = ban_info_future.result(), then the result is composed and the
\* response sent.
AwaitBanAndRespond(w) ==
    /\ thr[w].pc = "await_ban"
    /\ future_done(thr[w].ban)
    /\ LET t == thr[w]
           player_id == ArgGet(t.args, "uid", <<>>)
           server == ArgGet(t.args, "server", T_BD)
           resp == IF AggregateRaises(t.info.result, t.ban.result)
                   THEN Response(ExceptionBody, 500)
                   ELSE Response(check_banned_fast(player_id, server,
                                                   t.info.result, t.ban.result), 200)
       IN  thr' = [thr EXCEPT ![w].pc = "done",
                              ![w].responses = Append(t.responses, resp)]
    /\ UNCHANGED <<cache, restVars>>

\* The account-info task's cache lookup: a hit promotes the entry and
\* completes the task, a miss starts the upstream call.
InfoLookup(w) ==
    /\ thr[w].info.state = "lookup"
    /\ cache_lock_free(w)
    /\ LET t == thr[w]
           key == ThreadKey(t)
           during == \E v \in Workers \ {w} : thr[v].info.state = "fetching"
       IN  IF key \in CacheKeys(cache)
           THEN /\ cache' = lru_hit(cache, key)
                /\ thr' = [thr EXCEPT
                              ![w].info = [state |-> "done",
                                           result |-> CacheValue(cache, key),
                                           hit |-> TRUE, up |-> NoUp],
                              ![w].firstDone = Completed(t, "info"),
                              ![w].duringFetch = during]
           ELSE /\ cache' = cache
                /\ thr' = [thr EXCEPT ![w].info.state = "fetching",
                                      ![w].duringFetch = during]
    /\ UNCHANGED restVars

\* InfoReturn that hands every caller the record the cache holds for the
\* key after the store, as a cache that coalesces its misses would.
InfoReturnCoalesced(w) ==
    /\ thr[w].info.state = "fetching"
    /\ cache_lock_free(w)
    /\ LET t == thr[w]
           key == ThreadKey(t)
       IN  \E res \in ConcInfoUps :
               LET value == get_player_info(key[1], key[2], res)
                   stored == lru_store(cache, key, value)
               IN  /\ cache' = stored
                   /\ thr' = [thr EXCEPT
                                 ![w].info = [state |-> "done",
                                              result |-> CacheValue(stored, key),
                                              hit |-> FALSE, up |-> res],
                                 ![w].firstDone = Completed(t, "info")]
    /\ UNCHANGED restVars

\* The upstream call of the account-info task ends and its record is stored.
InfoReturn(w) ==
    /\ thr[w].info.state = "fetching"
    /\ cache_lock_free(w)
    /\ LET t == thr[w]
           key == ThreadKey(t)
       IN  \E res \in ConcInfoUps :
               LET value == get_player_info(key[1], key[2], res)
               IN  /\ cache' = lru_store(cache, key, value)
                   /\ thr' = [thr EXCEPT
                                 ![w].info = [state |-> "done", result |-> value,
                                              hit |-> FALSE, up |-> res],
                                 ![w].firstDone = Completed(t, "info")]
    /\ UNCHANGED restVars

\* The upstream call of the ban task ends.
BanReturn(w) ==
    /\ thr[w].ban.state = "calling"
    /\ \E res \in ConcBanUps :
          thr' = [thr EXCEPT
                    ![w].ban = [state |-> "done",
                                result |-> check_ban_status(ThreadKey(thr[w])[1], res)],
                    ![w].firstDone = Completed(thr[w], "ban")]
    /\ UNCHANGED <<cache, restVars>>

\* A step of the request thread w or of one of its two tasks.
ThreadStep(w) ==
    \/ SubmitInfo(w)
    \/ SubmitBan(w)
    \/ AwaitInfo(w)
    \/ AwaitBanAndRespond(w)
    \/ InfoLookup(w)
    \/ InfoReturn(w)
    \/ BanReturn(w)

\* The server starts empty or has answered maxsize - 1 distinct requests.
InitConc ==
    /\ cache \in {<<>>, Prefilled(maxsize - 1)}
    /\ recency = <<>>
    /\ last = NoRequest
    /\ lastCheck = NoRequest
    /\ prevCheck = NoRequest
    /\ nreq = 0
    /\ nextFresh = 0
    /\ cacheB = <<>>
    /\ lastB = NoRequest
    /\ arg = NoArg
    /\ out = NotApplied
    /\ thr = NoThreads

NextConc == \E w \in Workers : Receive(w) \/ ThreadStep(w)

SpecConc == InitConc /\ [][NextConc]_vars

\* The server starts empty, threads are scheduled fairly and every upstream
\* call ends (requests.get with timeout=5 and timeout=3).
SpecConcLive ==
    /\ Init
    /\ [][NextConc]_vars
    /\ \A w \in Workers : WF_vars(ThreadStep(w))

(***************************************************************************)
(* Properties.                                                             *)
(***************************************************************************)
\* A non-empty text of the characters 0-9.
AllDecimal(s) == Len(s) > 0 /\ \A i \in 1..Len(s) : s[i] \in DecimalDigitChars

BodyKeys(h) == IF h.body.t = "obj" THEN DOMAIN h.body.f ELSE {}

IsErrorEnvelope(h, code) ==
    /\ h.status = code
    /\ BodyKeys(h) = {"error", "status_code"}
    /\ h.body.f["status_code"] = JInt(code)

IsExceptionEnvelope(h) ==
    /\ h.status = 500
    /\ BodyKeys(h) = {"exception", "status_code"}
    /\ h.body.f["status_code"] = JInt(500)

\* C1: a /check request whose uid is missing, empty or holds any character
\* other than 0-9 is answered 400 with an error message and status_code 400,
\* and makes no upstream call (the aggregator is not invoked).
C1_NonDecimalUidRejected ==
    (last.route = "check" /\ ~AllDecimal(last.uid)) =>
        /\ IsErrorEnvelope(last, 400)
        /\ last.infoCalls = 0
        /\ last.banCalls = 0

\* C2: a /check request with a non-empty uid of the characters 0-9 is
\* answered 200 with the identifier, nickname, region, level, experience,
\* rank, guild, ban status and ban duration fields, whatever the outcomes
\* of the two upstream calls are.
C2_RequiredFields ==
    {"UID", "Nickname", "Region", "Level", "Experience", "Rank", "Guild",
     "Account", "Duration"}

C2_ValidUidAlways200 ==
    (last.route = "check" /\ AllDecimal(last.uid)) =>
        /\ last.status = 200
        /\ C2_RequiredFields \subseteq BodyKeys(last)

\* Both upstream calls failed, in different ways, and the answer is 200.
C2_Witness ==
    /\ last.route = "check"
    /\ AllDecimal(last.uid)
    /\ last.infoUp = UpTimeout
    /\ last.banUp = UpError
    /\ last.status = 200

OldestResident(order, c) ==
    SelectSeq(order, LAMBDA k : k \in CacheKeys(c))[1]

\* A step that handles an accepted /check for a key that is not resident
\* while the cache holds 100 entries.
C4_MissOnFull ==
    /\ Len(cache) = maxsize
    /\ last'.route = "check"
    /\ last'.status = 200
    /\ <<last'.uid, last'.server>> \notin CacheKeys(cache)

\* C4: a miss on a full cache evicts exactly one entry, the one whose last
\* access (insertion or hit) is the oldest; the other 99 entries keep their
\* records and the new key is resident with the record just fetched.
C4_EvictsLeastRecentlyUsed ==
    [][C4_MissOnFull =>
          LET new == <<last'.uid, last'.server>>
              victim == OldestResident(recency, cache)
          IN  /\ CacheKeys(cache') = (CacheKeys(cache) \ {victim}) \cup {new}
              /\ victim \in CacheKeys(cache)
              /\ Len(cache') = maxsize
              /\ Cardinality(CacheKeys(cache')) = maxsize
              /\ \A k \in CacheKeys(cache) \ {victim} :
                     CacheValue(cache', k) = CacheValue(cache, k)
              /\ CacheValue(cache', new).nickname = last'.body.f["Nickname"]]_vars

\* Right after the 101st distinct key was stored: the first key stored is
\* still resident because it was hit in between, and the second key stored
\* was evicted in its place.
C4_Witness ==
    /\ nextFresh = maxsize + 1
    /\ last.route = "check"
    /\ last.uid = NatToText(maxsize + 1)
    /\ ~last.hit
    /\ Len(cache) = maxsize
    /\ <<NatToText(1), T_BD>> \in CacheKeys(cache)
    /\ <<NatToText(2), T_BD>> \notin CacheKeys(cache)

\* The fields of a /check result that come from the account record.
InfoDerived ==
    {"Nickname", "Region", "Level", "Experience", "Rank", "Guild",
     "LastLogin", "CreatedAt", "BIO"}

InfoPart(h) == [k \in InfoDerived \cap BodyKeys(h) |-> h.body.f[k]]

SameKey(g, h) == g.uid = h.uid /\ g.server = h.server

\* C5: of two consecutive accepted /check requests with the same
\* (uid, server), the second is answered with the account fields of the
\* first and without a new account-info call.
C5_SecondCheckSameInfo ==
    (prevCheck.route = "check" /\ lastCheck.route = "check"
        /\ SameKey(prevCheck, lastCheck)) =>
        /\ prevCheck.status = 200
        /\ lastCheck.status = 200
        /\ InfoPart(lastCheck) = InfoPart(prevCheck)
        /\ lastCheck.infoCalls = 0

\* The second of two requests for one key was served from the cache, with
\* the record (and BIO) the first request fetched.
C5_Witness ==
    /\ prevCheck.route = "check"
    /\ lastCheck.route = "check"
    /\ SameKey(prevCheck, lastCheck)
    /\ prevCheck.infoUp = UpResponse(200, InfoFull)
    /\ lastCheck.hit
    /\ "BIO" \in BodyKeys(lastCheck)

\* What the ban service's answer says: whether the account is banned, and
\* the duration text.
UpstreamBanData(up) ==
    IF up.kind = "response" /\ up.status_code = 200 /\ IsDict(up.json)
    THEN DictGet(up.json, "data", EmptyObj)
    ELSE EmptyObj

UpstreamSaysBanned(up) ==
    IsDict(UpstreamBanData(up))
        /\ Truthy(DictGet(UpstreamBanData(up), "is_banned", JInt(0)))

\* C6: every accepted /check makes exactly one ban-status call, also when
\* the account record is a cache hit, and its three ban fields are those of
\* that call's outcome.
C6_BanFromThisCall ==
    (last.route = "check" /\ last.status # 400) =>
        /\ last.banCalls = 1
        /\ last.banUp \in BanUps
        /\ last.status = 200
        /\ last.body.f["Banned"] = JBool(UpstreamSaysBanned(last.banUp))
        /\ last.body.f["Account"] =
               JStr(IF UpstreamSaysBanned(last.banUp) THEN T_Banned ELSE T_NotBanned)
        /\ last.body.f["Duration"] =
               JStr(IF UpstreamSaysBanned(last.banUp)
                    THEN PyStr(DictGet(UpstreamBanData(last.banUp), "period", JInt(0)))
                             \o T_Months
                    ELSE T_NoBan)

\* Two consecutive requests for one key, the second with the account record
\* from the cache: the account was banned in between and the second answer
\* says so.
C6_Witness ==
    /\ last = lastCheck
    /\ prevCheck.route = "check"
    /\ SameKey(prevCheck, lastCheck)
    /\ lastCheck.hit
    /\ lastCheck.banCalls = 1
    /\ prevCheck.body.f["Banned"] = JBool(FALSE)
    /\ lastCheck.body.f["Banned"] = JBool(TRUE)
    /\ lastCheck.body.f["Duration"] = JStr(<<"3">> \o T_Months)

\* The ban call timed out, raised, or was answered with a status other
\* than 200.
BanCallFailed(up) ==
    \/ up.kind \in {"timeout", "error"}
    \/ up.kind = "response" /\ up.status_code # 200

\* C8: when the ban call fails, the ban lookup yields is_banned 0, period 0,
\* success false, and /check still answers 200 with NOT BANNED, "No ban"
\* and Banned? false.
C8_BanFailureDegrades ==
    (last.route = "check" /\ BanCallFailed(last.banUp)) =>
        /\ check_ban_status(last.uid, last.banUp) =
               [is_banned |-> JInt(0), period |-> JInt(0), success |-> FALSE]
        /\ last.status = 200
        /\ last.body.f["Account"] = JStr(T_NotBanned)
        /\ last.body.f["Duration"] = JStr(T_NoBan)
        /\ last.body.f["Banned"] = JBool(FALSE)

\* The ban service answered 403 with a body that says banned.
C8_Witness ==
    /\ last.route = "check"
    /\ last.banUp = UpResponse(403, BanBody(1, 3))
    /\ last.status = 200
    /\ last.body.f["Account"] = JStr(T_NotBanned)

\* C9: the Status text of a /check result reports success exactly when the
\* ban lookup succeeded, whatever the account-info outcome was.
C9_StatusIsBanSuccess ==
    (last.route = "check" /\ last.status = 200) =>
        /\ last.body.f["Status"] \in {JStr(T_CheckedOk), JStr(T_Partial)}
        /\ (last.body.f["Status"] = JStr(T_CheckedOk))
               <=> check_ban_status(last.uid, last.banUp).success

\* The account-info call timed out, the ban lookup succeeded, and the
\* Status reports success.
C9_Witness ==
    /\ last.route = "check"
    /\ last.infoUp = UpTimeout
    /\ last.banUp = UpResponse(200, BanBody(0, 0))
    /\ last.body.f["Nickname"] = JStr(T_Timeout)
    /\ last.body.f["Status"] = JStr(T_CheckedOk)

\* C10: /info/<uid> answers 200 with the upstream JSON when the upstream
\* answers 200, the upstream's status with an error envelope when it
\* answers another status, and 500 when the call or the decoding raises.
C10_InfoStatus ==
    (last.route = "info") =>
        LET up == last.infoUp
        IN  /\ last.infoCalls = 1
            /\ up \in InfoUps
            /\ IF up.kind = "response" /\ up.status_code = 200 /\ up.json.t # "invalid"
               THEN last.status = 200 /\ last.body = up.json
               ELSE IF up.kind = "response" /\ up.status_code # 200
               THEN IsErrorEnvelope(last, up.status_code)
               ELSE IsExceptionEnvelope(last)

\* A uid that is no number, and the upstream's 404 passed on.
C10_Witness ==
    /\ last.route = "info"
    /\ last.uid = <<"a", "b", "c">>
    /\ last.infoUp = UpResponse(404, NotJson)
    /\ last.status = 404

\* The fields of a /check result other than Region.
NonRegionPart(h) == [k \in BodyKeys(h) \ {"Region"} |-> h.body.f[k]]

\* The fields of a /check result that do not come from the account record.
NonInfoPart(h) == [k \in BodyKeys(h) \ InfoDerived |-> h.body.f[k]]

\* The account-info answer carries a region of its own.
UpstreamGivesRegion(up) ==
    /\ up.kind = "response"
    /\ up.status_code = 200
    /\ ~InfoParseRaises(up.json)
    /\ "AccountRegion" \in DOMAIN InfoSection(up.json, "AccountInfo").f

\* C7 as claimed: in two runs that differ in the server values only, every
\* field of the answers other than Region is the same, and Region differs
\* only where an answer carries the server as its fallback label.
C7_ServerOnlyLabelsRegion ==
    (last.route = "check" /\ lastB.route = "check") =>
        /\ NonRegionPart(last) = NonRegionPart(lastB)
        /\ (last.body.f["Region"] # lastB.body.f["Region"]) =>
               \/ last.body.f["Region"] = JStr(last.server)
               \/ lastB.body.f["Region"] = JStr(lastB.server)

\* C7 amended: the server value is the fallback region label and part of the
\* cache key.  In two runs that differ in the server values only, the fields
\* that do not come from the account record are always the same; for a
\* request that misses the cache in both runs every field other than Region
\* is the same, and Region is the upstream's region when it gives one and
\* each run's server value when it does not or the fetch fell back.
C7_ServerLabelsRegionAndKeysCache ==
    (last.route = "check" /\ lastB.route = "check") =>
        /\ NonInfoPart(last) = NonInfoPart(lastB)
        /\ (~last.hit /\ ~lastB.hit) =>
               /\ NonRegionPart(last) = NonRegionPart(lastB)
               /\ IF UpstreamGivesRegion(last.infoUp)
                  THEN last.body.f["Region"] = lastB.body.f["Region"]
                  ELSE /\ last.body.f["Region"] = JStr(last.server)
                       /\ lastB.body.f["Region"] = JStr(lastB.server)

\* Both runs missed, the upstream gave no region, and the two answers
\* differ in Region only.
C7_Witness ==
    /\ last.route = "check"
    /\ lastB.route = "check"
    /\ last.server # lastB.server
    /\ ~last.hit
    /\ ~lastB.hit
    /\ last.infoUp = UpResponse(200, InfoRenamed)
    /\ last.body.f["Region"] # lastB.body.f["Region"]
    /\ NonRegionPart(last) = NonRegionPart(lastB)


\* C11: /health is answered 200 with the static status document in every
\* state of the cache and whatever the upstream services would answer, and
\* handling it makes no upstream call.
C11_HealthAlways200 ==
    (last.route = "health") =>
        /\ last.status = 200
        /\ BodyKeys(last) = {"status", "service", "version", "uptime", "features"}
        /\ last.infoCalls = 0
        /\ last.banCalls = 0
        /\ last.infoUp = NoUp
        /\ last.banUp = NoUp

\* /health right after a /check for which both upstream services failed and
\* whose fallback record is in the cache.
C11_Witness ==
    /\ last.route = "health"
    /\ last.status = 200
    /\ lastCheck.route = "check"
    /\ lastCheck.infoUp = UpTimeout
    /\ lastCheck.banUp = UpError
    /\ Len(cache) = 1


\* The fallback record the claims describe: the given nickname, the server
\* as region, level and experience "0", rank "Unknown", guild "None", and
\* timestamps "0" with the unknown marker as readable form.
C12_Fallback(nick, server) ==
    [nickname |-> JStr(nick),
     region |-> JStr(server),
     lastLoginAt |-> JStr(<<"0">>),
     lastLoginReadable |-> JStr(T_Unknown),
     createAt |-> JStr(<<"0">>),
     createAtReadable |-> JStr(T_Unknown),
     level |-> JStr(<<"0">>),
     experience |-> JStr(<<"0">>),
     rank |-> JStr(<<"U", "n", "k", "n", "o", "w", "n">>),
     guild |-> JStr(<<"N", "o", "n", "e">>)]

\* A body that is not JSON or not shaped as expected: no object, an object
\* with a section that is no object, or a signature that is neither a text
\* nor a list or object of at most 50 members.
C12_Unshaped(body) ==
    \/ body.t # "obj"
    \/ \E n \in {"AccountInfo", "AccountProfileInfo", "GuildInfo", "SocialInfo"} :
           n \in DOMAIN body.f /\ body.f[n].t # "obj"
    \/ /\ "SocialInfo" \in DOMAIN body.f
       /\ body.f["SocialInfo"].t = "obj"
       /\ "signature" \in DOMAIN body.f["SocialInfo"].f
       /\ LET s == body.f["SocialInfo"].f["signature"]
          IN  \/ s.t \notin {"str", "list", "obj"}
              \/ s.t = "list" /\ Len(s.items) > 50
              \/ s.t = "obj" /\ Cardinality(DOMAIN s.f) > 50

\* C12: get_player_info returns a record for every outcome of its upstream
\* call: the fallback record with nickname "Fetch failed" for a status other
\* than 200, "Timeout" for a timeout, "Error" for any other exception and
\* for a 200 answer whose body is not JSON or not shaped as expected; each
\* fallback has region = server, level and experience "0", rank "Unknown",
\* guild "None" and zeroed/unknown timestamps.
C12_FetchNeverRaises ==
    (arg.fn = "get_player_info" /\ out.applied) =>
        LET r == arg.res
        IN  /\ InfoKeysRead \subseteq DOMAIN out.value
            /\ (r.kind = "response" /\ r.status_code # 200) =>
                   out.value = C12_Fallback(T_FetchFailed, arg.server)
            /\ (r.kind = "timeout") =>
                   out.value = C12_Fallback(T_Timeout, arg.server)
            /\ (r.kind = "error") =>
                   out.value = C12_Fallback(T_Error, arg.server)
            /\ (r.kind = "response" /\ r.status_code = 200 /\ C12_Unshaped(r.json)) =>
                   out.value = C12_Fallback(T_Error, arg.server)

\* A 200 answer whose signature is null: len() raises inside the try block
\* and the record is the "Error" fallback labelled with the server IND.
C12_Witness ==
    /\ arg.fn = "get_player_info"
    /\ arg.server = T_IND
    /\ arg.res = UpResponse(200, WithSection("SocialInfo", JObj("signature" :> JNull)))
    /\ out.applied
    /\ out.value.nickname = JStr(T_Error)
    /\ out.value.region = JStr(T_IND)
    /\ "signature" \notin DOMAIN out.value


\* The flag values that Python takes as true, among BanFlags.
C16_TruthyFlags ==
    {JInt(1), JInt(2), JInt(0 - 1), JBool(TRUE), JStr(<<"0">>), JStr(<<"y", "e", "s">>)}

\* The text of each period of BanPeriods.
C16_PeriodText(period) ==
    CASE period = JInt(0) -> <<"0">>
      [] period = JInt(3) -> <<"3">>
      [] period = JInt(12) -> <<"1", "2">>
      [] period = JNull -> <<"N", "o", "n", "e">>
      [] period = JStr(<<"7">>) -> <<"7">>

\* C16: in every /check result, Account is BANNED exactly when the ban
\* record's flag is truthy and NOT BANNED otherwise, Duration is
\* "<period> month(s)" with the record's period exactly when the flag is
\* truthy and "No ban" otherwise, and Banned? is the flag as a boolean; no
\* result says BANNED together with "No ban" or with Banned? false.
C16_BanFieldsAgree ==
    (arg.fn = "check_banned_fast" /\ out.applied) =>
        LET rec == out.ban_info
            body == out.value.f
            banned == rec.is_banned \in C16_TruthyFlags
        IN  /\ body["Account"] = JStr(IF banned THEN T_Banned ELSE T_NotBanned)
            /\ body["Duration"] =
                   JStr(IF banned
                        THEN C16_PeriodText(rec.period)
                                 \o <<" ", "m", "o", "n", "t", "h", "(", "s", ")">>
                        ELSE <<"N", "o", " ", "b", "a", "n">>)
            /\ body["Banned"] = JBool(banned)
            /\ ~(/\ body["Account"] = JStr(T_Banned)
                 /\ \/ body["Duration"] = JStr(<<"N", "o", " ", "b", "a", "n">>)
                    \/ body["Banned"] = JBool(FALSE))

\* The ban service gave the flag "0" (a non-empty text, so truthy) and no
\* period: the result says BANNED for "None month(s)".
C16_Witness ==
    /\ arg.fn = "check_banned_fast"
    /\ out.applied
    /\ out.ban_info.is_banned = JStr(<<"0">>)
    /\ out.ban_info.period = JNull
    /\ out.value.f["Account"] = JStr(T_Banned)
    /\ out.value.f["Duration"] =
           JStr(<<"N", "o", "n", "e", " ", "m", "o", "n", "t", "h", "(", "s", ")">>)
    /\ out.value.f["Banned"] = JBool(TRUE)

\* The places of the spaces of a text, and the place of its second space.
C17_Spaces(s) == {i \in 1..Len(s) : s[i] = " "}
C17_SecondSpace(s) ==
    CHOOSE i \in C17_Spaces(s) : Cardinality({j \in C17_Spaces(s) : j < i}) = 1

\* The first two space-delimited tokens of a text joined by one space: the
\* text up to its second space, or all of it when it has fewer than two.
C17_FirstTwoTokens(s) ==
    IF Cardinality(C17_Spaces(s)) < 2 THEN s
    ELSE SubSeq(s, 1, C17_SecondSpace(s) - 1)

\* C17: parse_date_string of a text gives its first two space-delimited
\* tokens joined by one space, whatever follows them; the empty text gives
\* the unknown marker; a text of one token is returned unchanged.
C17_KeepsDateAndTime ==
    (arg.fn = "parse_date_string" /\ out.applied /\ arg.date_str.t = "str") =>
        LET s == arg.date_str.s
        IN  /\ (Len(s) = 0) => out.value = JStr(T_Unknown)
            /\ (Len(s) > 0) => out.value = JStr(C17_FirstTwoTokens(s))
            /\ (Len(s) > 0 /\ C17_Spaces(s) = {}) => out.value = arg.date_str

\* "2025-02-10 20:27:51 BDT" gives "2025-02-10 20:27:51".
C17_Witness ==
    /\ arg.fn = "parse_date_string"
    /\ arg.date_str = JStr(T_Login1)
    /\ out.applied
    /\ out.value = JStr(<<"2", "0", "2", "5", "-", "0", "2", "-", "1", "0", " ",
                          "2", "0", ":", "2", "7", ":", "5", "1">>)

\* The signature text of a well-shaped 200 answer, if it has one.
C18_HasSignatureText(res) ==
    /\ res.kind = "response"
    /\ res.status_code = 200
    /\ ~C12_Unshaped(res.json)
    /\ "SocialInfo" \in DOMAIN res.json.f
    /\ "signature" \in DOMAIN res.json.f["SocialInfo"].f
    /\ res.json.f["SocialInfo"].f["signature"].t = "str"

\* C18: a signature longer than 50 characters is recorded as its first 50
\* characters followed by "...", and one of 0 to 50 characters unchanged;
\* the /check result has the BIO field, holding the record's signature,
\* exactly when the record has a non-empty signature, so not for fallback
\* records and not for empty signatures.
C18_SignatureAndBio ==
    /\ (arg.fn = "get_player_info" /\ out.applied /\ C18_HasSignatureText(arg.res)) =>
           LET s == arg.res.json.f["SocialInfo"].f["signature"].s
           IN  out.value.signature =
                   JStr(IF Len(s) > 50 THEN SubSeq(s, 1, 50) \o <<".", ".", ".">> ELSE s)
    /\ (arg.fn = "check_banned_fast" /\ out.applied) =>
           LET record == out.player_info
               nonEmpty == "signature" \in DOMAIN record /\ record.signature # JStr(<<>>)
           IN  /\ ("BIO" \in DOMAIN out.value.f) <=> nonEmpty
               /\ nonEmpty => out.value.f["BIO"] = record.signature
               /\ (record.nickname \in {JStr(T_FetchFailed), JStr(T_Timeout), JStr(T_Error)})
                      => "BIO" \notin DOMAIN out.value.f

\* A signature of 60 characters reaches the result as a BIO of its first 50
\* characters and the marker.
C18_Witness ==
    /\ arg.fn = "check_banned_fast"
    /\ arg.infoUp =
           UpResponse(200, WithSection("SocialInfo", JObj("signature" :> JStr(Sig(60)))))
    /\ out.applied
    /\ out.value.f["BIO"] = JStr(Sig(50) \o <<".", ".", ".">>)


\* C13: in a /check request both tasks are started before either result is
\* awaited, and the response is composed and sent only after both tasks
\* have completed, from the results of both.
C13_JoinNotRace ==
    \A w \in Workers :
        LET t == thr[w]
        IN  /\ (t.pc \in {"await_info", "await_ban"}) =>
                   (t.info.state # "none" /\ t.ban.state # "none")
            /\ (t.pc = "await_ban") => t.info.state = "done"
            /\ (check_accepts(t.args) /\ t.responses # <<>>) =>
                   /\ t.pc = "done"
                   /\ t.info.state = "done"
                   /\ t.ban.state = "done"
                   /\ t.responses[1].status = 200
                   /\ t.responses[1].body.f["Nickname"] = t.info.result.nickname
                   /\ t.responses[1].body.f["Status"] =
                          JStr(IF t.ban.result.success THEN T_CheckedOk ELSE T_Partial)

\* Two answered requests: in one the account-info task completed first, in
\* the other the ban task.
C13_Witness ==
    /\ thr["w1"].pc = "done"
    /\ thr["w2"].pc = "done"
    /\ thr["w1"].firstDone = "info"
    /\ thr["w2"].firstDone = "ban"
    /\ thr["w1"].responses[1].status = 200
    /\ thr["w2"].responses[1].status = 200

\* C14: under every interleaving of concurrent /check requests the cache
\* holds at most 100 entries and at most one entry per (uid, server) key,
\* and its recency order holds each resident key exactly once.
C14_CacheConsistent ==
    /\ Len(cache) <= maxsize
    /\ Cardinality(CacheKeys(cache)) = Len(cache)

\* Two requests for new keys missed while the cache held 99 entries, the
\* second looked up while the first was fetching; after both stores the
\* cache holds 100 entries and the oldest one was evicted.
C14_Witness ==
    /\ thr["w1"].pc = "done"
    /\ thr["w2"].pc = "done"
    /\ ~thr["w1"].info.hit
    /\ ~thr["w2"].info.hit
    /\ thr["w1"].info.state = "done"
    /\ thr["w2"].info.state = "done"
    /\ thr["w2"].duringFetch
    /\ ThreadKey(thr["w1"]) # ThreadKey(thr["w2"])
    /\ Len(cache) = maxsize
    /\ <<NatToText(1), T_BD>> \notin CacheKeys(cache)

C19_EveryRequestAnswered ==
    \A w \in Workers :
        /\ [](Len(thr[w].responses) <= 1)
        /\ (thr[w].pc # "idle") ~> (thr[w].pc = "done" /\ Len(thr[w].responses) = 1)

\* Two requests for the same key that both missed, the second while the
\* first was fetching, and both are answered once.
C19_Witness ==
    /\ thr["w1"].pc = "done"
    /\ thr["w2"].pc = "done"
    /\ check_accepts(thr["w1"].args)
    /\ ThreadKey(thr["w1"]) = ThreadKey(thr["w2"])
    /\ ~thr["w1"].info.hit
    /\ ~thr["w2"].info.hit
    /\ thr["w2"].duringFetch
    /\ Len(thr["w1"].responses) = 1
    /\ Len(thr["w2"].responses) = 1


\* A fallback record: one of the three failure nicknames with the defaults.
C20_IsFallback(record) ==
    \E nick \in {T_FetchFailed, T_Timeout, T_Error} :
        record = C12_Fallback(nick, record.region.s)

\* The account-info call of a request failed: timeout, exception, a status
\* other than 200, or a 200 answer that does not parse.
C20_FetchFailed(up) ==
    \/ up.kind \in {"timeout", "error"}
    \/ up.kind = "response" /\ (up.status_code # 200 \/ C12_Unshaped(up.json))

\* C20: a /check whose account-info fetch failed stores the fallback record
\* under (uid, server); while that entry is resident, every /check for the
\* key is answered from it (same nickname and defaults) without an
\* account-info call, and the entry stays as it is until it is evicted.
C20_FallbackMemoized ==
    [][(nreq' = nreq + 1) =>
          /\ (Len(cache) < maxsize) =>
                 \A k \in CacheKeys(cache) :
                     k \in CacheKeys(cache') /\ CacheValue(cache', k) = CacheValue(cache, k)
          /\ (last'.route = "check" /\ last'.status # 400) =>
                 LET key == <<last'.uid, last'.server>>
                 IN  /\ (key \notin CacheKeys(cache) /\ C20_FetchFailed(last'.infoUp)) =>
                            /\ key \in CacheKeys(cache')
                            /\ C20_IsFallback(CacheValue(cache', key))
                     /\ (key \in CacheKeys(cache)
                            /\ C20_IsFallback(CacheValue(cache, key))) =>
                            LET record == CacheValue(cache, key)
                            IN  /\ last'.infoCalls = 0
                                /\ last'.infoUp = NoUp
                                /\ last'.status = 200
                                /\ last'.body.f["Nickname"] = record.nickname
                                /\ last'.body.f["Region"] = record.region
                                /\ last'.body.f["Level"] = JStr(<<"0">>)
                                /\ last'.body.f["Guild"] = JStr(T_None)
                                /\ "BIO" \notin BodyKeys(last')]_vars

\* The first request's fetch was answered 404; the second request for the
\* key is served the "Fetch failed" record from the cache.
C20_Witness ==
    /\ prevCheck.route = "check"
    /\ prevCheck.infoUp = UpResponse(404, NotJson)
    /\ last = lastCheck
    /\ SameKey(prevCheck, lastCheck)
    /\ lastCheck.hit
    /\ lastCheck.infoCalls = 0
    /\ lastCheck.body.f["Nickname"] = JStr(T_FetchFailed)
    /\ CacheValue(cache, <<lastCheck.uid, lastCheck.server>>).nickname = JStr(T_FetchFailed)


\* C21: the cache and its recency order change only in a /check request
\* that passed validation.  A /check answered 400, every /info/<uid>
\* request, /health and / leave them as they are; /info/<uid> always makes
\* its own upstream call, also for a uid whose record is cached; a rejected
\* /check makes no upstream call.
C21_OnlyAcceptedCheckTouchesCache ==
    [][(nreq' = nreq + 1) =>
          LET rejected == last'.route = "check" /\ last'.status = 400
          IN  /\ (rejected \/ last'.route \in {"info", "health", "index"}) =>
                     (cache' = cache /\ recency' = recency)
              /\ (cache' # cache \/ recency' # recency) =>
                     (last'.route = "check" /\ last'.status # 400)
              /\ rejected =>
                     /\ last'.infoCalls = 0
                     /\ last'.banCalls = 0
                     /\ last'.infoUp = NoUp
                     /\ last'.banUp = NoUp
              /\ (last'.route = "info") =>
                     /\ last'.infoCalls = 1
                     /\ ~last'.hit
                     /\ last'.infoUp \in InfoUps
                     /\ last'.banCalls = 0]_vars

\* /info/7 right after a /check for uid 7 whose fetch timed out: the cache
\* still holds the one "Timeout" record and /info passes on the upstream's
\* complete answer.
C21_Witness ==
    /\ last.route = "info"
    /\ last.uid = U7
    /\ last.status = 200
    /\ last.body = InfoFull
    /\ lastCheck.route = "check"
    /\ lastCheck.uid = U7
    /\ Len(cache) = 1
    /\ cache[1].key = <<U7, T_BD>>
    /\ cache[1].value.nickname = JStr(T_Timeout)


\* The caches a run of SpecConc starts from.
C22_InitialCaches == {<<>>, Prefilled(maxsize - 1)}

\* Two answered requests for one key that both missed.
C22_BothMissed(w, v) ==
    /\ w # v
    /\ check_accepts(thr[w].args)
    /\ ThreadKey(thr[w]) = ThreadKey(thr[v])
    /\ thr[w].pc = "done"
    /\ thr[v].pc = "done"
    /\ ~thr[w].info.hit
    /\ ~thr[v].info.hit

\* C22: when two concurrent /check requests both miss on the same
\* (uid, server), each makes its own account-info call and is answered with
\* the record of its own call; afterwards the cache holds exactly one entry
\* for the key and is larger by that one entry only.
C22_MissesNotCoalesced ==
    \A w \in Workers, v \in Workers :
        C22_BothMissed(w, v) =>
            LET key == ThreadKey(thr[w])
                own == get_player_info(key[1], key[2], thr[w].info.up)
                body == thr[w].responses[1].body.f
            IN  /\ thr[w].info.up \in ConcInfoUps
                /\ thr[w].responses[1].status = 200
                /\ body["Nickname"] = own.nickname
                /\ body["Region"] = own.region
                /\ body["Level"] = own.level
                /\ body["Guild"] = own.guild
                /\ Cardinality({i \in 1..Len(cache) : cache[i].key = key}) = 1
                /\ Without(cache, CacheIndex(cache, key)) \in C22_InitialCaches

\* Both requests missed on one key, the second while the first was
\* fetching; the first call succeeded and the second timed out, so the two
\* answers differ, and the cache holds one entry for the key.
C22_Witness ==
    /\ C22_BothMissed("w1", "w2")
    /\ thr["w2"].duringFetch
    /\ thr["w1"].info.up \in FillInfoUps(0)
    /\ thr["w2"].info.up = UpTimeout
    /\ thr["w1"].responses[1].body.f["Nickname"] # thr["w2"].responses[1].body.f["Nickname"]
    /\ thr["w2"].responses[1].body.f["Nickname"] = JStr(T_Timeout)
    /\ Len(cache) = 1

====
